---- MODULE Spec2Model ----
(***************************************************************************)
(* Model of the social-story video pipeline.                               *)
(*                                                                         *)
(*  - SpecAsync : the KV-backed asynchronous job flow of                   *)
(*    social_story/app.py (start_job, start_story_generation,              *)
(*    process_all_scenes, process_scene_with_delay, initiate_scene_assets, *)
(*    render_final_video) over social_story/kv_storage.py.                 *)
(*                                                                         *)
(*  - SpecGraph : one run of _background_render -> run_pipeline            *)
(*    (story_spec, assets, render) of the two orchestrator modules         *)
(*    (api/social_story/orchestrator.py with the remote render worker and  *)
(*    the local fallback, social_story/orchestrator.py with the local      *)
(*    encoder only), with render_worker/app.py answering the upload.       *)
(*                                                                         *)
(*  - SpecRender : render_story of social_story/app.py, which awaits the   *)
(*    same run_pipeline and streams the final file with iterfile.          *)
(*                                                                         *)
(*  - SpecWorker : one POST /render handled by render_worker/app.py,        *)
(*    whatever client sent it.                                             *)
(*                                                                         *)
(*  - SpecAdapters : one call of create_and_wait_image followed by one     *)
(*    call of tts_to_bytes (replicate_client.py, elevenlabs_client.py).    *)
(*                                                                         *)
(* Every `await` on the KV store is a point where another task of the      *)
(* event loop can run: update_job_status is a read followed by a write,    *)
(* and is modelled as two steps.  The graph pipeline is sequential; each   *)
(* external call (adapter, encoder, worker) is one step whose outcome is   *)
(* chosen nondeterministically.                                            *)
(***************************************************************************)
EXTENDS Integers, Sequences, FiniteSets, TLC

\* Largest number of scenes the text-generation service returns in the model.
MaxScenes == 2

SceneIds == 1..MaxScenes

\* Task 0 is start_story_generation; task i >= 1 is the task that
\* process_all_scenes creates for the i-th scene of the spec.
Tasks == 0..MaxScenes

VARIABLES
    kvEnabled,   \* KVStorage.enabled
    kvJob,       \* the value stored under "job:<job_id>", or NoJob
    kvAssets,    \* the keys "asset:<job_id>:<scene_id>:<type>" that are stored
    scenes,      \* spec.scenes held by start_story_generation
    pc,          \* position of every task
    call,        \* arguments of the update_job_status call a task is inside
    local,       \* job_data read by that update_job_status call
    response,    \* what start_job answered
    adapterCalls,\* <<task, adapter>> pairs: adapters invoked so far
    raised,      \* the tasks in which a stage raised an exception
    JOBS,        \* the legacy in-memory registry of app.py (job ids)
    submission,  \* the request start_job received and the credentials configured
    execution_mode, \* "async": the pipeline is a detached task; "sync": awaited inline
    cfg,         \* which orchestrator module runs, and its environment
    gpc,         \* position of _background_render / run_pipeline
    gi,          \* loop index of node_assets
    state,       \* the OrchestrationState of the run
    fs,          \* the job's tmp_dir on disk
    job,         \* the JobRecord given to _background_render
    req,         \* the multipart request sent to the render worker
    resp,        \* the answer to that request
    exc,         \* the exception that is propagating, if any
    obs,         \* what the encoder, the worker and the strategies were handed
    dl,          \* the streamed response of render_story: iterfile and its client
    img,         \* one call of create_and_wait_image
    tts          \* one call of tts_to_bytes

asyncVars == <<kvEnabled, kvJob, kvAssets, scenes, pc, call, local, response,
               adapterCalls, raised, JOBS, submission, execution_mode>>

graphVars == <<cfg, gpc, gi, state, fs, job, req, resp, exc, obs, dl>>

adapterVars == <<img, tts>>

vars == <<asyncVars, graphVars, adapterVars>>

----------------------------------------------------------------------------
\* Job records and error texts

\* str(e) of an exception: the message, and the scene id the message
\* contains (0 when the message contains no scene id).
NoError == [msg |-> "", scene |-> 0]

LLMError       == [msg |-> "story spec generation failed", scene |-> 0]
ReplicateError == [msg |-> "Replicate failed", scene |-> 0]
ElevenLabsError == [msg |-> "ElevenLabs HTTP error", scene |-> 0]

NoJob == [status |-> "absent", error |-> NoError, spec |-> <<>>,
          scenes_completed |-> 0, total_scenes |-> 0, current_step |-> "unknown"]

FieldNames == {"spec", "scenes_completed", "total_scenes", "current_step"}

NoFields == [spec |-> <<>>, scenes_completed |-> 0, total_scenes |-> 0,
             current_step |-> "unknown"]

NoCall == [status |-> "none", error |-> NoError, names |-> {}, vals |-> NoFields,
           ret |-> "none"]

create_job_record ==
    [status |-> "queued", error |-> NoError, spec |-> <<>>,
     scenes_completed |-> 0, total_scenes |-> 0, current_step |-> "unknown"]

\* KVStorage.get_job: None when the store is disabled or the key is unset.
get_job == IF kvEnabled THEN kvJob ELSE NoJob

\* KVStorage.set_job: the value the key holds after the call.
set_job(job_data) == IF kvEnabled THEN job_data ELSE kvJob

\* The record is rebuilt from the arguments of the call alone.
MergeFields_overwrite(job_data, c) ==
    [status |-> c.status, error |-> c.error, spec |-> c.vals.spec,
     scenes_completed |-> c.vals.scenes_completed,
     total_scenes |-> c.vals.total_scenes,
     current_step |-> c.vals.current_step]

\* The body of update_job_status between its read and its write:
\* job_data["status"] = status; if error: job_data["error"] = error;
\* for key, value in kwargs.items(): job_data[key] = value
MergeFields(job_data, c) ==
    [status |-> c.status,
     error |-> IF c.error # NoError THEN c.error ELSE job_data.error,
     spec |-> IF "spec" \in c.names THEN c.vals.spec ELSE job_data.spec,
     scenes_completed |-> IF "scenes_completed" \in c.names
                          THEN c.vals.scenes_completed ELSE job_data.scenes_completed,
     total_scenes |-> IF "total_scenes" \in c.names
                      THEN c.vals.total_scenes ELSE job_data.total_scenes,
     current_step |-> IF "current_step" \in c.names
                      THEN c.vals.current_step ELSE job_data.current_step]

\* settings.py: the four credentials has_all_keys looks at.
RequiredKeys == {"OPENAI_API_KEY", "REPLICATE_API_TOKEN", "ELEVENLABS_API_KEY",
                 "ELEVENLABS_VOICE_ID"}

\* Only the three API keys are looked at, not the voice id.
has_all_keys_api_keys_only(keys) ==
    {"OPENAI_API_KEY", "REPLICATE_API_TOKEN", "ELEVENLABS_API_KEY"} \subseteq keys

\* settings.has_all_keys: all([...]) over the credentials that are set.
has_all_keys(keys) == \A k \in RequiredKeys : k \in keys

\* Only the situation is looked at.
MissingFields_situation_only(situation, setting) == situation = ""

\* start_job, line 132: `not req.situation or not req.setting`
MissingFields(situation, setting) == situation = "" \/ setting = ""

\* No request has been received yet.
NoSubmission == [keys |-> {}, situation |-> "none", setting |-> "none"]

\* The specs StorySpec.model_validate accepts: any list of scenes, the empty
\* list and repeated ids included.
StorySpecs == UNION {[1..n -> SceneIds] : n \in 0..MaxScenes}


----------------------------------------------------------------------------
\* The graph pipeline: OrchestrationState, the tmp_dir, the render worker

\* Largest number of scenes of a spec given to run_pipeline in the model.
MaxGraphScenes == 3

GraphSceneIds == {1, 2, 3}

\* duration_sec is any int the text-generation service wrote.
Durations == {0, 2}

\* The scene lists StorySpec.model_validate accepts, here with one duration
\* for all scenes of a spec: any ids in any order, repeated ids included.
GraphSpecs ==
    UNION {{[k \in 1..n |-> [id |-> ids[k], duration_sec |-> d]] :
                ids \in [1..n -> GraphSceneIds], d \in Durations}
           : n \in 0..MaxGraphScenes}

\* Sizes in bytes of a rendered file or a response body.
BodySizes == {512, 1024, 4096, 3145728}

\* `file_size <= 1024` of node_render and of the worker
MinVideoBytes == 1024

NoFile == [origin |-> "none", size |-> 0]

NoExc == [msg |-> "", scene |-> 0, stderr |-> FALSE]

SpecExc       == [msg |-> "story spec generation failed", scene |-> 0, stderr |-> FALSE]
ImageExc      == [msg |-> "Replicate failed", scene |-> 0, stderr |-> FALSE]
AudioExc      == [msg |-> "ElevenLabs HTTP error", scene |-> 0, stderr |-> FALSE]
\* media._run: RuntimeError(f"FFmpeg failed: {error_msg}")
FFmpegExc     == [msg |-> "FFmpeg failed: <stderr>", scene |-> 0, stderr |-> TRUE]
\* api node_render, line 222
BothFailedExc == [msg |-> "Both external render worker and local ffmpeg rendering failed",
                  scene |-> 0, stderr |-> FALSE]

NoResp == [status |-> -1, ctype |-> "", size |-> 0]
NoReq  == [meta |-> <<>>, files |-> {}]

InitState == [tmp_dir |-> "none", spec |-> <<>>, image_paths |-> <<>>,
              audio_paths |-> <<>>, scene_video_paths |-> <<>>, final_path |-> "none"]

\* JobRecord.__init__
JobRecord == [status |-> "queued", error |-> NoExc, tmp_dir |-> "none", final_path |-> "none"]

InitObs == [remote_requests |-> 0, local_runs |-> 0, local_ok |-> FALSE,
            encoder_calls |-> <<>>, concat_input |-> <<>>,
            w_runs |-> 0, w_scene_outs |-> <<>>, w_encoder_calls |-> <<>>, w_tmp |-> "none",
            adapters |-> {}]

Configs == {[variant |-> "api",   serverless |-> FALSE, worker_url |-> TRUE],
            [variant |-> "api",   serverless |-> FALSE, worker_url |-> FALSE],
            [variant |-> "local", serverless |-> FALSE, worker_url |-> FALSE],
            [variant |-> "local", serverless |-> TRUE,  worker_url |-> FALSE]}

\* iterfile reads the file in pieces of 1024 * 1024 bytes.
ChunkBytes == 1048576

\* The number of non-empty reads f.read(1024 * 1024) returns for a file.
Chunks(size) == (size + ChunkBytes - 1) \div ChunkBytes

\* Largest max_retries tts_to_bytes is called with in the model (the default
\* of the signature is 3).
MaxRetries == 3

\* Largest number of status polls of one prediction in the model.
MaxPolls == 3

\* The output field of a prediction: absent, a list of urls, or a string.
NoOutput == [kind |-> "null", items |-> <<>>]

NoPoll == [http |-> 0, status |-> "none", output |-> NoOutput]

\* r is the status of the latest answer to a create request (0: none yet);
\* expired_at is the number of polls made when REPLICATE_POLL_TIMEOUT_S
\* passed since the loop started (-1: it has not passed).
NoImageCall == [pc |-> "off", token |-> FALSE, mode |-> "none", creates |-> 0,
                r |-> 0, polls |-> 0, expired_at |-> -1, seen |-> NoPoll,
                result |-> "none", url |-> "none", error |-> "none"]

NoTTSCall == [pc |-> "off", voice_id |-> FALSE, api_key |-> FALSE, max_retries |-> 0,
              attempt |-> 0, log |-> <<>>, slept |-> 0, result |-> "none",
              error |-> "none"]

\* No adapter call is in progress.
AdaptersIdle ==
    /\ img = NoImageCall
    /\ tts = NoTTSCall

\* No response is being streamed.
NoDownload == [http |-> 0, phase |-> "none", read |-> 0, total |-> 0, client |-> "none"]

\* The graph pipeline at rest.
GraphIdle ==
    /\ cfg = [variant |-> "api", serverless |-> FALSE, worker_url |-> FALSE]
    /\ gpc = "off"
    /\ gi = 0
    /\ state = InitState
    /\ fs = [tmp_dir |-> "none", files |-> {}, final |-> NoFile]
    /\ job = JobRecord
    /\ req = NoReq
    /\ resp = NoResp
    /\ exc = NoExc
    /\ obs = InitObs
    /\ dl = NoDownload

\* sorted(state.spec.scenes, key=lambda s: s.id): stable, ascending id.
RECURSIVE InsertById(_, _)
InsertById(sc, sorted) ==
    IF sorted = <<>> THEN <<sc>>
    ELSE IF sc.id < Head(sorted).id THEN <<sc>> \o sorted
    ELSE <<Head(sorted)>> \o InsertById(sc, Tail(sorted))

\* The scenes taken in the order of the spec.
SortById_unsorted(s) == s

RECURSIVE SortById(_)
SortById(s) ==
    IF s = <<>> THEN <<>>
    ELSE InsertById(s[Len(s)], SortById(SubSeq(s, 1, Len(s) - 1)))

\* sorted(id_to_paths.keys()) of the worker
RECURSIVE SortedIds(_)
SortedIds(S) ==
    IF S = {} THEN <<>>
    ELSE LET m == CHOOSE x \in S : \A y \in S : x <= y
         IN <<m>> \o SortedIds(S \ {m})

Min(a, b) == IF a < b THEN a ELSE b
Max(a, b) == IF a > b THEN a ELSE b

\* Smallest member of S within 1..n, n + 1 when there is none.
FirstOf(S, n) ==
    LET T == S \cap (1..n)
    IN IF T = {} THEN n + 1 ELSE CHOOSE x \in T : \A y \in T : x <= y

Ids(s) == [k \in DOMAIN s |-> s[k].id]

----------------------------------------------------------------------------
\* SpecAsync

InitAsync ==
    /\ kvEnabled \in BOOLEAN
    /\ kvJob = NoJob
    /\ kvAssets = {}
    /\ scenes = <<>>
    /\ pc = [t \in Tasks |-> IF t = 0 THEN "idle" ELSE "off"]
    /\ call = [t \in Tasks |-> NoCall]
    /\ local = [t \in Tasks |-> NoJob]
    /\ response = "none"
    /\ adapterCalls = {}
    /\ raised = {}
    /\ JOBS = {}
    /\ submission = NoSubmission
    /\ execution_mode \in {"async", "sync"}
    /\ GraphIdle
    /\ AdaptersIdle

\* A task enters update_job_status(job_id, status, error, **fields).
Enter(t, status, error, names, vals, ret) ==
    /\ pc' = [pc EXCEPT ![t] = "upd_get"]
    /\ call' = [call EXCEPT ![t] = [status |-> status, error |-> error,
                                    names |-> names, vals |-> vals, ret |-> ret]]

\* start_job: the two rejections, else create_job_record and create_task.
start_job(keys, situation, setting) ==
    /\ pc[0] = "idle"
    /\ submission' = [keys |-> keys, situation |-> situation, setting |-> setting]
    /\ IF ~has_all_keys(keys)
       THEN /\ response' = "500"
            /\ pc' = [pc EXCEPT ![0] = "rejected"]
            /\ UNCHANGED kvJob
       ELSE IF MissingFields(situation, setting)
       THEN /\ response' = "400"
            /\ pc' = [pc EXCEPT ![0] = "rejected"]
            /\ UNCHANGED kvJob
       ELSE /\ execution_mode = "async"
            /\ kvJob' = set_job(create_job_record)
            /\ response' = "queued"
            /\ pc' = [pc EXCEPT ![0] = "sg_start"]
    /\ UNCHANGED <<kvEnabled, kvAssets, scenes, call, local, adapterCalls, raised, JOBS, execution_mode, graphVars, adapterVars>>

\* Synchronous mode: the same submission, with the pipeline awaited inline
\* instead of detached; nothing is answered until it has run.
start_job_sync(keys, situation, setting) ==
    /\ pc[0] = "idle"
    /\ execution_mode = "sync"
    /\ has_all_keys(keys)
    /\ ~MissingFields(situation, setting)
    /\ submission' = [keys |-> keys, situation |-> situation, setting |-> setting]
    /\ kvJob' = set_job(create_job_record)
    /\ pc' = [pc EXCEPT ![0] = "sg_start"]
    /\ UNCHANGED <<kvEnabled, kvAssets, scenes, call, local, response, adapterCalls, raised, JOBS, execution_mode, graphVars, adapterVars>>

\* Synchronous mode: start_story_generation has returned; the answer carries
\* the status the job record holds now.
start_job_sync_return ==
    /\ execution_mode = "sync"
    /\ pc[0] = "done"
    /\ response = "none"
    /\ response' = get_job.status
    /\ UNCHANGED <<kvEnabled, kvJob, kvAssets, scenes, pc, call, local, adapterCalls, raised, JOBS, submission, execution_mode, graphVars, adapterVars>>

\* start_story_generation, line 148: update_job_status(job_id, "running")
start_story_generation ==
    /\ pc[0] = "sg_start"
    /\ Enter(0, "running", NoError, {}, NoFields, "sg_spec")
    /\ UNCHANGED <<kvEnabled, kvJob, kvAssets, scenes, local, response, adapterCalls, raised, JOBS, submission, execution_mode, graphVars, adapterVars>>

\* update_job_status, line 79: job_data = await self.get_job(job_id);
\* returns False at once when nothing is stored.
update_job_status_get(t) ==
    /\ pc[t] = "upd_get"
    /\ local' = [local EXCEPT ![t] = get_job]
    /\ IF get_job = NoJob
       THEN /\ pc' = [pc EXCEPT ![t] = call[t].ret]
            /\ call' = [call EXCEPT ![t] = NoCall]
       ELSE /\ pc' = [pc EXCEPT ![t] = "upd_set"]
            /\ UNCHANGED call
    /\ UNCHANGED <<kvEnabled, kvJob, kvAssets, scenes, response, adapterCalls, raised, JOBS, submission, execution_mode, graphVars, adapterVars>>

\* update_job_status, lines 84-92: merge into the copy read, then set_job.
update_job_status_set(t) ==
    /\ pc[t] = "upd_set"
    /\ kvJob' = set_job(MergeFields(local[t], call[t]))
    /\ pc' = [pc EXCEPT ![t] = call[t].ret]
    /\ call' = [call EXCEPT ![t] = NoCall]
    /\ local' = [local EXCEPT ![t] = NoJob]
    /\ UNCHANGED <<kvEnabled, kvAssets, scenes, response, adapterCalls, raised, JOBS, submission, execution_mode, graphVars, adapterVars>>

\* start_story_generation, lines 152-159 and 165-167: the spec is generated
\* and validated, then stored; an exception is recorded as a failure.
generate_spec_ok(sp) ==
    /\ pc[0] = "sg_spec"
    /\ scenes' = sp
    /\ Enter(0, "running", NoError, {"spec", "total_scenes", "current_step"},
             [NoFields EXCEPT !.spec = sp, !.total_scenes = Len(sp),
                              !.current_step = "generating_assets"],
             "pas_spawn")
    /\ adapterCalls' = adapterCalls \cup {<<0, "llm">>}
    /\ UNCHANGED <<kvEnabled, kvJob, kvAssets, local, response, raised, JOBS, submission, execution_mode, graphVars, adapterVars>>

generate_spec_raises ==
    /\ pc[0] = "sg_spec"
    /\ Enter(0, "failed", LLMError, {}, NoFields, "done")
    /\ raised' = raised \cup {0}
    /\ adapterCalls' = adapterCalls \cup {<<0, "llm">>}
    /\ UNCHANGED <<kvEnabled, kvJob, kvAssets, scenes, local, response, JOBS, submission, execution_mode, graphVars, adapterVars>>

\* process_all_scenes, lines 172-177: one task per scene.
process_all_scenes ==
    /\ pc[0] = "pas_spawn"
    /\ pc' = [t \in Tasks |-> IF t = 0 THEN "pas_gather"
                              ELSE IF t <= Len(scenes) THEN "scene_start" ELSE pc[t]]
    /\ UNCHANGED <<kvEnabled, kvJob, kvAssets, scenes, call, local, response, adapterCalls, raised, JOBS, submission, execution_mode, graphVars, adapterVars>>

SceneTasks == 1..Len(scenes)

\* process_scene_with_delay / initiate_scene_assets, lines 211-215: image,
\* stored asset url, audio.  outcome names the adapter that raised, if any.
initiate_scene_assets(t, outcome) ==
    /\ t \in SceneTasks
    /\ pc[t] = "scene_start"
    /\ CASE outcome = "image_raises" ->
              /\ adapterCalls' = adapterCalls \cup {<<t, "image">>}
              /\ UNCHANGED kvAssets
              /\ raised' = raised \cup {t}
              /\ Enter(t, "failed", ReplicateError, {}, NoFields, "done")
         [] outcome = "audio_raises" ->
              /\ adapterCalls' = adapterCalls \cup {<<t, "image">>, <<t, "audio">>}
              /\ kvAssets' = IF kvEnabled THEN kvAssets \cup {<<scenes[t], "image">>}
                             ELSE kvAssets
              /\ raised' = raised \cup {t}
              /\ Enter(t, "failed", ElevenLabsError, {}, NoFields, "done")
         [] outcome = "ok" ->
              /\ adapterCalls' = adapterCalls \cup {<<t, "image">>, <<t, "audio">>}
              /\ kvAssets' = IF kvEnabled THEN kvAssets \cup {<<scenes[t], "image">>}
                             ELSE kvAssets
              /\ pc' = [pc EXCEPT ![t] = "scene_count"]
              /\ UNCHANGED <<call, raised>>
    /\ UNCHANGED <<kvEnabled, kvJob, scenes, local, response, JOBS, submission, execution_mode, graphVars, adapterVars>>

\* The counter is advanced once per asset of the scene instead of once per scene.
count_scene_per_asset(t) ==
    /\ t \in SceneTasks
    /\ pc[t] = "scene_count"
    /\ IF get_job # NoJob
       THEN Enter(t, "running", NoError, {"scenes_completed"},
                  [NoFields EXCEPT !.scenes_completed = get_job.scenes_completed + 2],
                  "done")
       ELSE /\ pc' = [pc EXCEPT ![t] = "done"]
            /\ UNCHANGED call
    /\ UNCHANGED <<kvEnabled, kvJob, kvAssets, scenes, local, response, adapterCalls, raised, JOBS, submission, execution_mode, graphVars, adapterVars>>

\* initiate_scene_assets, lines 219-222: read the record, add one to the
\* counter read, and hand the sum to update_job_status.
count_scene(t) ==
    /\ t \in SceneTasks
    /\ pc[t] = "scene_count"
    /\ IF get_job # NoJob
       THEN Enter(t, "running", NoError, {"scenes_completed"},
                  [NoFields EXCEPT !.scenes_completed = get_job.scenes_completed + 1],
                  "done")
       ELSE /\ pc' = [pc EXCEPT ![t] = "done"]
            /\ UNCHANGED call
    /\ UNCHANGED <<kvEnabled, kvJob, kvAssets, scenes, local, response, adapterCalls, raised, JOBS, submission, execution_mode, graphVars, adapterVars>>

AllScenesDone == \A t \in SceneTasks : pc[t] = "done"

\* process_all_scenes, lines 180-186: after gather, re-read the record and
\* start the render only when the counter has reached the number of scenes.
gather_and_check ==
    /\ pc[0] = "pas_gather"
    /\ AllScenesDone
    /\ IF get_job # NoJob /\ get_job.scenes_completed >= Len(scenes)
       THEN Enter(0, "running", NoError, {"current_step"},
                  [NoFields EXCEPT !.current_step = "rendering_video"], "rf_done")
       ELSE /\ pc' = [pc EXCEPT ![0] = "done"]
            /\ UNCHANGED call
    /\ UNCHANGED <<kvEnabled, kvJob, kvAssets, scenes, local, response, adapterCalls, raised, JOBS, submission, execution_mode, graphVars, adapterVars>>

\* render_final_video, line 231
render_final_video ==
    /\ pc[0] = "rf_done"
    /\ Enter(0, "succeeded", NoError, {"current_step"},
             [NoFields EXCEPT !.current_step = "completed"], "done")
    /\ UNCHANGED <<kvEnabled, kvJob, kvAssets, scenes, local, response, adapterCalls, raised, JOBS, submission, execution_mode, graphVars, adapterVars>>

\* The environments a deployment is started in: every credential set, or
\* one of them missing.
KeySets == {RequiredKeys} \cup {RequiredKeys \ {k} : k \in RequiredKeys}

NextAsync ==
    \/ \E k \in KeySets, s \in {"", "first day"}, g \in {"", "classroom"} : start_job(k, s, g)
    \/ \E k \in KeySets, s \in {"", "first day"}, g \in {"", "classroom"} : start_job_sync(k, s, g)
    \/ start_job_sync_return
    \/ start_story_generation
    \/ \E t \in Tasks : update_job_status_get(t)
    \/ \E t \in Tasks : update_job_status_set(t)
    \/ \E sp \in StorySpecs : generate_spec_ok(sp)
    \/ generate_spec_raises
    \/ process_all_scenes
    \/ \E t \in Tasks, o \in {"ok", "image_raises", "audio_raises"} : initiate_scene_assets(t, o)
    \/ \E t \in Tasks : count_scene(t)
    \/ gather_and_check
    \/ render_final_video

SpecAsync == InitAsync /\ [][NextAsync]_vars

----------------------------------------------------------------------------
\* SpecGraph: _background_render -> run_pipeline -> story_spec, assets, render

\* The asynchronous flow at rest.
AsyncIdle ==
    /\ kvEnabled = FALSE
    /\ kvJob = NoJob
    /\ kvAssets = {}
    /\ scenes = <<>>
    /\ pc = [t \in Tasks |-> "off"]
    /\ call = [t \in Tasks |-> NoCall]
    /\ local = [t \in Tasks |-> NoJob]
    /\ response = "none"
    /\ adapterCalls = {}
    /\ raised = {}
    /\ JOBS = {}
    /\ submission = NoSubmission
    /\ execution_mode = "async"

InitGraph ==
    /\ AsyncIdle
    /\ AdaptersIdle
    /\ cfg \in Configs
    /\ gpc = "idle"
    /\ gi = 0
    /\ state = InitState
    /\ fs = [tmp_dir |-> "none", files |-> {}, final |-> NoFile]
    /\ job = JobRecord
    /\ req = NoReq
    /\ resp = NoResp
    /\ exc = NoExc
    /\ obs = InitObs
    /\ dl = NoDownload

\* _background_render, lines 105-108: job.status = "running", then run_pipeline.
background_render_start ==
    /\ gpc = "idle"
    /\ job' = [job EXCEPT !.status = "running"]
    /\ gpc' = "mk_state"
    /\ UNCHANGED <<asyncVars, adapterVars, dl, cfg, gi, state, fs, req, resp, exc, obs>>

\* The path is computed but the directory is not created.
mk_state_no_makedirs ==
    /\ gpc = "mk_state"
    /\ state' = [state EXCEPT !.tmp_dir = "tmp"]
    /\ gpc' = "story_spec"
    /\ UNCHANGED <<asyncVars, adapterVars, dl, cfg, gi, fs, job, req, resp, exc, obs>>

\* _mk_state: os.makedirs(tmp_dir)
mk_state ==
    /\ gpc = "mk_state"
    /\ state' = [state EXCEPT !.tmp_dir = "tmp"]
    /\ fs' = [fs EXCEPT !.tmp_dir = "exists"]
    /\ gpc' = "story_spec"
    /\ UNCHANGED <<asyncVars, adapterVars, dl, cfg, gi, job, req, resp, exc, obs>>

\* node_story_spec
node_story_spec_ok(sp) ==
    /\ gpc = "story_spec"
    /\ state' = [state EXCEPT !.spec = sp]
    /\ fs' = [fs EXCEPT !.files = @ \cup {<<"story_spec.json", 0>>}]
    /\ gi' = 1
    /\ gpc' = "assets"
    /\ UNCHANGED <<asyncVars, adapterVars, dl, cfg, job, req, resp, exc, obs>>

node_story_spec_raises ==
    /\ gpc = "story_spec"
    /\ exc' = SpecExc
    /\ gpc' = "except"
    /\ UNCHANGED <<asyncVars, adapterVars, dl, cfg, gi, state, fs, job, req, resp, obs>>

\* node_assets: social_story/orchestrator.py processes only the first two
\* scenes when it detects a serverless environment.
max_scenes ==
    IF cfg.variant = "local" /\ cfg.serverless
    THEN Min(Len(state.spec), 2)
    ELSE Len(state.spec)

\* One iteration of the loop of node_assets: _scene_asset for scene gi.
node_assets_scene(outcome) ==
    /\ gpc = "assets"
    /\ gi <= max_scenes
    /\ LET sid == state.spec[gi].id IN
       CASE outcome = "image_raises" ->
              /\ obs' = [obs EXCEPT !.adapters = @ \cup {<<gi, "image">>}]
              /\ exc' = ImageExc
              /\ gpc' = "except"
              /\ UNCHANGED <<gi, state, fs>>
         [] outcome = "audio_raises" ->
              /\ obs' = [obs EXCEPT !.adapters = @ \cup {<<gi, "image">>, <<gi, "audio">>}]
              /\ fs' = [fs EXCEPT !.files = @ \cup {<<"png", sid>>}]
              /\ exc' = AudioExc
              /\ gpc' = "except"
              /\ UNCHANGED <<gi, state>>
         [] outcome = "ok" ->
              /\ obs' = [obs EXCEPT !.adapters = @ \cup {<<gi, "image">>, <<gi, "audio">>}]
              /\ fs' = [fs EXCEPT !.files = @ \cup {<<"png", sid>>, <<"mp3", sid>>}]
              /\ state' = [state EXCEPT !.image_paths = Append(@, sid),
                                        !.audio_paths = Append(@, sid)]
              /\ gi' = gi + 1
              /\ UNCHANGED <<gpc, exc>>
    /\ UNCHANGED <<asyncVars, adapterVars, dl, cfg, job, req, resp>>

node_assets_return ==
    /\ gpc = "assets"
    /\ gi > max_scenes
    /\ gpc' = "render"
    /\ UNCHANGED <<asyncVars, adapterVars, dl, cfg, gi, state, fs, job, req, resp, exc, obs>>

AssetsOnDisk(sid) == <<"png", sid>> \in fs.files /\ <<"mp3", sid>> \in fs.files

\* node_render up to the POST: the subtitle file is written; with a worker
\* configured (api module only) the scenes sorted by id and their files are
\* sent, an unreadable file ending the attempt before anything is sent.
node_render_begin ==
    /\ gpc = "render"
    /\ fs' = [fs EXCEPT !.files = @ \cup {<<"story.srt", 0>>}]
    /\ IF cfg.variant = "api" /\ cfg.worker_url
       THEN LET payload == SortById(state.spec) IN
            IF \A k \in DOMAIN payload : AssetsOnDisk(payload[k].id)
            THEN /\ req' = [meta |-> payload,
                            files |-> UNION {{<<"png", payload[k].id>>, <<"mp3", payload[k].id>>}
                                             : k \in DOMAIN payload}]
                 /\ obs' = [obs EXCEPT !.remote_requests = @ + 1]
                 /\ gpc' = "remote_wait"
            ELSE /\ gpc' = "local"
                 /\ UNCHANGED <<req, obs>>
       ELSE /\ gpc' = "local"
            /\ UNCHANGED <<req, obs>>
    /\ UNCHANGED <<asyncVars, adapterVars, dl, cfg, gi, state, job, resp, exc>>

\* render_worker/app.py, render: the scenes in ascending id, one encoder run
\* each, concat, subtitles, size check.  failAt is the encoder invocation
\* that exits non-zero (0: none), size the size of the worker's final.mp4.
WorkerDur(meta, sid) ==
    LET K == {k \in DOMAIN meta : meta[k].id = sid}
        last == CHOOSE k \in K : \A j \in K : j <= k
    IN Max(1, meta[last].duration_sec)

WorkerRender(r, failAt, size) ==
    LET order == SortedIds({r.meta[k].id : k \in DOMAIN r.meta})
        n == Len(order)
        F == IF failAt = 0 THEN n + 3 ELSE failAt
        missing == {k \in 1..n : <<"png", order[k]>> \notin r.files
                                 \/ <<"mp3", order[k]>> \notin r.files}
        m == FirstOf(missing, n)
        runs == IF m <= n /\ m <= F THEN m - 1 ELSE Min(F, n)
        outs == IF m <= n /\ m <= F THEN m - 1 ELSE Min(F - 1, n)
        failed == (m <= n) \/ F <= n + 2 \/ size <= MinVideoBytes
    IN [status |-> IF failed THEN 500 ELSE 200,
        ctype |-> IF failed THEN "application/json" ELSE "video/mp4",
        size |-> IF failed THEN 512 ELSE size,
        scene_outs |-> SubSeq(order, 1, outs),
        encoder_calls |-> [k \in 1..runs |->
                              [id |-> order[k], duration_sec |-> WorkerDur(r.meta, order[k])]],
        tmp |-> IF failed THEN "deleted" ELSE "exists"]

worker_render(failAt, size) ==
    /\ gpc = "remote_wait"
    /\ LET w == WorkerRender(req, failAt, size) IN
       /\ resp' = [status |-> w.status, ctype |-> w.ctype, size |-> w.size]
       /\ obs' = [obs EXCEPT !.w_runs = @ + 1,
                             !.w_scene_outs = w.scene_outs,
                             !.w_encoder_calls = w.encoder_calls,
                             !.w_tmp = w.tmp]
    /\ gpc' = "remote_resp"
    /\ UNCHANGED <<asyncVars, adapterVars, dl, cfg, gi, state, fs, job, req, exc>>

\* What may answer instead of the worker (a proxy, a platform error page),
\* and status 0 for a request that raises (connect error, timeout).
GatewayResponses ==
    [status : {200, 302, 500}, ctype : {"video/mp4", "text/html"}, size : BodySizes]
        \cup {[status |-> 0, ctype |-> "", size |-> 0]}

gateway_response(r) ==
    /\ gpc = "remote_wait"
    /\ resp' = r
    /\ gpc' = "remote_resp"
    /\ UNCHANGED <<asyncVars, adapterVars, dl, cfg, gi, state, fs, job, req, exc, obs>>

\* The status of the response is not looked at.
RemoteStreamed_any_status(r) ==
    /\ r.status # 0
    /\ r.ctype = "video/mp4"

\* api node_render, lines 155-171: the response is streamed to final.mp4
\* unless the request raised, the status is >= 400 or the content type is
\* not video/mp4.
RemoteStreamed(r) ==
    /\ r.status # 0
    /\ ~(r.status >= 400)
    /\ r.ctype = "video/mp4"

\* Only an empty file is refused.
RemoteTooSmall_only_empty(file_size) == file_size <= 0

\* api node_render, lines 179-185: the size check on the streamed file.
RemoteTooSmall(file_size) == file_size <= MinVideoBytes

\* A refused answer is followed by a second request to the worker.
node_render_response_retry ==
    /\ gpc = "remote_resp"
    /\ IF RemoteStreamed(resp) /\ ~RemoteTooSmall(resp.size)
       THEN /\ fs' = [fs EXCEPT !.files = @ \cup {<<"final.mp4", 0>>},
                                !.final = [origin |-> "remote", size |-> resp.size]]
            /\ state' = [state EXCEPT !.final_path = "final.mp4"]
            /\ gpc' = "graph_done"
       ELSE /\ gpc' = IF obs.remote_requests < 2 THEN "render" ELSE "local"
            /\ UNCHANGED <<state, fs>>
    /\ UNCHANGED <<asyncVars, adapterVars, dl, cfg, gi, job, req, resp, exc, obs>>

node_render_response ==
    /\ gpc = "remote_resp"
    /\ IF RemoteStreamed(resp)
       THEN /\ fs' = [fs EXCEPT !.files = @ \cup {<<"final.mp4", 0>>},
                                !.final = [origin |-> "remote", size |-> resp.size]]
            /\ IF RemoteTooSmall(resp.size)
               THEN /\ gpc' = "local"
                    /\ UNCHANGED state
               ELSE /\ state' = [state EXCEPT !.final_path = "final.mp4"]
                    /\ gpc' = "graph_done"
       ELSE /\ gpc' = "local"
            /\ UNCHANGED <<state, fs>>
    /\ UNCHANGED <<asyncVars, adapterVars, dl, cfg, gi, job, req, resp, exc, obs>>

\* The local strategy: ffmpeg_scene_clip per scene in ascending id,
\* ffmpeg_concat, ffmpeg_burn_subs.  failAt is the encoder invocation that
\* exits non-zero (0: none); an invocation whose input file is missing fails.
node_render_local(failAt, size) ==
    /\ gpc = "local"
    /\ LET order == SortById(state.spec)
           n == Len(order)
           F == IF failAt = 0 THEN n + 3 ELSE failAt
           missing == {k \in 1..n : ~AssetsOnDisk(order[k].id)}
           m == FirstOf(missing, n)
           f == IF m <= n THEN Min(m, F) ELSE F
           clips == SubSeq(Ids(order), 1, Min(f - 1, n))
           calls == SubSeq(order, 1, Min(f, n))
           paths == state.scene_video_paths \o clips
           ok == f > n + 2
       IN /\ obs' = [obs EXCEPT !.local_runs = @ + 1,
                                !.local_ok = ok,
                                !.encoder_calls = @ \o calls,
                                !.concat_input = IF f > n THEN paths ELSE @]
          /\ IF ok
             THEN /\ state' = [state EXCEPT !.scene_video_paths = paths,
                                            !.final_path = "final.mp4"]
                  /\ fs' = [fs EXCEPT !.files = @ \cup {<<"mp4", clips[k]>> : k \in DOMAIN clips}
                                                  \cup {<<"tmp_concat.mp4", 0>>, <<"final.mp4", 0>>},
                                      !.final = [origin |-> "local", size |-> size]]
                  /\ gpc' = "graph_done"
                  /\ UNCHANGED exc
             ELSE /\ state' = [state EXCEPT !.scene_video_paths = paths]
                  /\ fs' = [fs EXCEPT !.files = @ \cup {<<"mp4", clips[k]>> : k \in DOMAIN clips}]
                  /\ exc' = IF cfg.variant = "api" THEN BothFailedExc ELSE FFmpegExc
                  /\ gpc' = "except"
    /\ UNCHANGED <<asyncVars, adapterVars, dl, cfg, gi, job, req, resp>>

\* The directory is left in place.
rmtree_skipped(d) == d

\* run_pipeline, lines 266-272: shutil.rmtree(state.tmp_dir), then re-raise.
rmtree(d) == [tmp_dir |-> "deleted", files |-> {}, final |-> NoFile]

run_pipeline_except ==
    /\ gpc = "except"
    /\ fs' = rmtree(fs)
    /\ gpc' = "raised"
    /\ UNCHANGED <<asyncVars, adapterVars, dl, cfg, gi, state, job, req, resp, exc, obs>>

\* _background_render, lines 110-113
background_render_succeeded ==
    /\ gpc = "graph_done"
    /\ job' = [job EXCEPT !.tmp_dir = state.tmp_dir,
                          !.final_path = state.final_path,
                          !.status = "succeeded"]
    /\ gpc' = "finished"
    /\ UNCHANGED <<asyncVars, adapterVars, dl, cfg, gi, state, fs, req, resp, exc, obs>>

\* _background_render, lines 114-121
background_render_failed ==
    /\ gpc = "raised"
    /\ job' = [job EXCEPT !.error = exc, !.status = "failed"]
    /\ fs' = IF job.tmp_dir # "none" THEN rmtree(fs) ELSE fs
    /\ gpc' = "finished"
    /\ UNCHANGED <<asyncVars, adapterVars, dl, cfg, gi, state, req, resp, exc, obs>>

FailPoints == 0..(MaxGraphScenes + 2)

NextGraph ==
    \/ background_render_start
    \/ mk_state
    \/ \E sp \in GraphSpecs : node_story_spec_ok(sp)
    \/ node_story_spec_raises
    \/ \E o \in {"ok", "image_raises", "audio_raises"} : node_assets_scene(o)
    \/ node_assets_return
    \/ node_render_begin
    \/ \E f \in FailPoints, z \in BodySizes : worker_render(f, z)
    \/ \E r \in GatewayResponses : gateway_response(r)
    \/ node_render_response
    \/ \E f \in FailPoints, z \in BodySizes : node_render_local(f, z)
    \/ run_pipeline_except
    \/ background_render_succeeded
    \/ background_render_failed

SpecGraph == InitGraph /\ [][NextGraph]_vars

----------------------------------------------------------------------------
\* SpecWorker: one POST /render handled by render_worker/app.py, sent by any
\* client of the worker

InitWorker ==
    /\ AsyncIdle
    /\ AdaptersIdle
    /\ cfg = [variant |-> "api", serverless |-> FALSE, worker_url |-> FALSE]
    /\ gpc = "worker_idle"
    /\ gi = 0
    /\ state = InitState
    /\ fs = [tmp_dir |-> "none", files |-> {}, final |-> NoFile]
    /\ job = JobRecord
    /\ req = NoReq
    /\ resp = NoResp
    /\ exc = NoExc
    /\ obs = InitObs
    /\ dl = NoDownload

\* The multipart forms a client can post: a scenes list that parses, and
\* any set of uploads named scene_<id>.png / scene_<id>.mp3.
WorkerRequests ==
    [meta : GraphSpecs, files : SUBSET ({"png", "mp3"} \X GraphSceneIds)]

\* render, lines 34-39: the form has arrived.
post_render(r) ==
    /\ gpc = "worker_idle"
    /\ req' = r
    /\ gpc' = "remote_wait"
    /\ UNCHANGED <<asyncVars, adapterVars, dl, cfg, gi, state, fs, job, resp, exc, obs>>

\* render, lines 41-47: a scenes field that is not JSON is answered 400
\* before the temp directory is made.
render_invalid_scenes ==
    /\ gpc = "worker_idle"
    /\ resp' = [status |-> 400, ctype |-> "application/json", size |-> 512]
    /\ obs' = [obs EXCEPT !.w_runs = @ + 1]
    /\ gpc' = "remote_resp"
    /\ UNCHANGED <<asyncVars, adapterVars, dl, cfg, gi, state, fs, job, req, exc>>

NextWorker ==
    \/ \E r \in WorkerRequests : post_render(r)
    \/ render_invalid_scenes
    \/ \E f \in FailPoints, z \in BodySizes : worker_render(f, z)

SpecWorker == InitWorker /\ [][NextWorker]_vars

----------------------------------------------------------------------------
\* SpecRender: render_story -> run_pipeline -> StreamingResponse(iterfile)

\* render_story, lines 42-44: the field check, then run_pipeline.
render_story(situation, setting) ==
    /\ gpc = "idle"
    /\ IF MissingFields(situation, setting)
       THEN /\ dl' = [dl EXCEPT !.http = 400]
            /\ gpc' = "finished"
       ELSE /\ gpc' = "mk_state"
            /\ UNCHANGED dl
    /\ UNCHANGED <<asyncVars, adapterVars, cfg, gi, state, fs, job, req, resp, exc, obs>>

\* The exception run_pipeline re-raised leaves render_story: a 500 answer.
render_story_raises ==
    /\ gpc = "raised"
    /\ dl' = [dl EXCEPT !.http = 500]
    /\ gpc' = "finished"
    /\ UNCHANGED <<asyncVars, adapterVars, cfg, gi, state, fs, job, req, resp, exc, obs>>

\* render_story, lines 46-65: 500 without a final file, else the response
\* is started over the generator iterfile(final_path, tmp_dir), which has
\* not run yet.
render_story_respond ==
    /\ gpc = "graph_done"
    /\ IF state.final_path = "none" \/ <<state.final_path, 0>> \notin fs.files
       THEN /\ dl' = [dl EXCEPT !.http = 500]
            /\ gpc' = "finished"
       ELSE /\ dl' = [http |-> 200, phase |-> "created", read |-> 0,
                       total |-> Chunks(fs.final.size), client |-> "connected"]
            /\ gpc' = "streaming"
    /\ UNCHANGED <<asyncVars, adapterVars, cfg, gi, state, fs, job, req, resp, exc, obs>>

\* iterfile, lines 53-58: one next() of the generator.  It opens the file
\* on the first call, yields the next piece, and when read returns b"" the
\* loop ends and the finally removes tmp_dir.
iterfile_next ==
    /\ gpc = "streaming"
    /\ dl.client = "connected"
    /\ dl.phase \in {"created", "open"}
    /\ IF dl.read < dl.total
       THEN /\ dl' = [dl EXCEPT !.phase = "open", !.read = @ + 1]
            /\ UNCHANGED <<fs, gpc>>
       ELSE /\ dl' = [dl EXCEPT !.phase = "closed"]
            /\ fs' = rmtree(fs)
            /\ gpc' = "finished"
    /\ UNCHANGED <<asyncVars, adapterVars, cfg, gi, state, job, req, resp, exc, obs>>

\* The client goes away while the response is being sent.
client_disconnect ==
    /\ gpc = "streaming"
    /\ dl.client = "connected"
    /\ dl' = [dl EXCEPT !.client = "gone"]
    /\ UNCHANGED <<asyncVars, adapterVars, cfg, gpc, gi, state, fs, job, req, resp, exc, obs>>

\* The abandoned generator is closed: one suspended at its yield runs its
\* finally (line 58), one that never started runs nothing.
iterfile_close ==
    /\ gpc = "streaming"
    /\ dl.client = "gone"
    /\ dl' = [dl EXCEPT !.phase = "closed"]
    /\ fs' = IF dl.phase = "open" THEN rmtree(fs) ELSE fs
    /\ gpc' = "finished"
    /\ UNCHANGED <<asyncVars, adapterVars, cfg, gi, state, job, req, resp, exc, obs>>

NextRender ==
    \/ \E s \in {"", "first day"}, g \in {"", "classroom"} : render_story(s, g)
    \/ mk_state
    \/ \E sp \in GraphSpecs : node_story_spec_ok(sp)
    \/ node_story_spec_raises
    \/ \E o \in {"ok", "image_raises", "audio_raises"} : node_assets_scene(o)
    \/ node_assets_return
    \/ node_render_begin
    \/ \E f \in FailPoints, z \in BodySizes : worker_render(f, z)
    \/ \E r \in GatewayResponses : gateway_response(r)
    \/ node_render_response
    \/ \E f \in FailPoints, z \in BodySizes : node_render_local(f, z)
    \/ run_pipeline_except
    \/ render_story_raises
    \/ render_story_respond
    \/ iterfile_next
    \/ client_disconnect
    \/ iterfile_close

SpecRender == InitGraph /\ [][NextRender]_vars

----------------------------------------------------------------------------
\* SpecAdapters: create_and_wait_image, then tts_to_bytes, as _scene_asset
\* and initiate_scene_assets call them for one scene

InitAdapters ==
    /\ AsyncIdle
    /\ GraphIdle
    /\ img = [NoImageCall EXCEPT !.pc = "create", !.token = TRUE]
              \/ img = [NoImageCall EXCEPT !.pc = "create", !.token = FALSE]
    /\ tts = NoTTSCall

\* replicate_client._parse_selector: "model" for owner/name, else "version".
Selectors == {"model", "version"}

\* Answers to the create POST: created, not found, another error.
CreateStatuses == {201, 404, 500}

\* create_and_wait_image, lines 53-88: the create request; for a model
\* selector answered 404 the latest version is resolved and the create is
\* repeated on the generic endpoint.  resolve is how that lookup ended
\* and second the status of the repeated create, whose body has an id only
\* when the prediction was created.
create_prediction(mode, first, resolve, second) ==
    /\ img.pc = "create"
    /\ IF ~img.token
       THEN img' = [img EXCEPT !.pc = "done", !.mode = mode, !.result = "raised",
                               !.error = "RuntimeError: REPLICATE_API_TOKEN is not set"]
       ELSE IF first < 400
       THEN img' = [img EXCEPT !.pc = "poll", !.mode = mode, !.creates = 1,
                               !.r = first]
       ELSE IF mode = "model" /\ first = 404
       THEN IF resolve # "version_id"
            THEN img' = [img EXCEPT !.pc = "done", !.mode = mode, !.creates = 1,
                                    !.r = first, !.result = "raised",
                                    !.error = "RuntimeError: Replicate create failed"]
            ELSE IF second < 400
            THEN img' = [img EXCEPT !.pc = "poll", !.mode = mode, !.creates = 2,
                                    !.r = second]
            ELSE img' = [img EXCEPT !.pc = "done", !.mode = mode, !.creates = 2,
                                    !.r = second, !.result = "raised",
                                    !.error = "KeyError: id"]
       ELSE img' = [img EXCEPT !.pc = "done", !.mode = mode, !.creates = 1,
                               !.r = first, !.result = "raised",
                               !.error = "RuntimeError: Replicate create failed"]
    /\ UNCHANGED <<asyncVars, graphVars, tts>>

Outputs == {NoOutput,
            [kind |-> "list", items |-> <<>>],
            [kind |-> "list", items |-> <<"url_a">>],
            [kind |-> "list", items |-> <<"url_a", "url_b">>],
            [kind |-> "str", items |-> <<"url_a">>]}

\* Answers to the status GET.
PollResponses ==
    [http : {200}, status : {"starting", "processing", "succeeded", "failed", "canceled"},
     output : Outputs]
        \cup {[http |-> 500, status |-> "none", output |-> NoOutput]}

\* The output is looked at before the status.
PollOutcome_output_first(body) ==
    IF body.output.kind = "list" /\ body.output.items # <<>> THEN "return"
    ELSE IF body.status \in {"succeeded", "failed", "canceled"} THEN "raise"
    ELSE "continue"

\* create_and_wait_image, lines 103-114: what a status body leads to.
PollOutcome(body) ==
    IF body.status \in {"succeeded", "failed", "canceled"}
    THEN IF body.status # "succeeded" THEN "raise"
         ELSE IF body.output.kind = "list" /\ body.output.items # <<>> THEN "return"
         ELSE "raise"
    ELSE "continue"

\* The wall clock passes start + REPLICATE_POLL_TIMEOUT_S (start is taken at
\* line 90, when the loop is entered) while the loop is in a status GET or
\* in its sleep.
poll_ceiling_passes ==
    /\ img.pc = "poll"
    /\ img.expired_at = -1
    /\ img' = [img EXCEPT !.expired_at = img.polls]
    /\ UNCHANGED <<asyncVars, graphVars, tts>>

\* start is taken anew at every turn, so the ceiling is never exceeded.
PollTimedOut_per_turn(c) == FALSE

\* create_and_wait_image, line 115: time.time() - start > REPLICATE_POLL_TIMEOUT_S.
PollTimedOut(c) == c.expired_at >= 0

\* create_and_wait_image, lines 91-118: one turn of the polling loop.
poll_prediction(s) ==
    /\ img.pc = "poll"
    /\ img.polls < MaxPolls
    /\ IF s.http >= 400
       THEN img' = [img EXCEPT !.pc = "done", !.polls = @ + 1, !.seen = s,
                               !.result = "raised",
                               !.error = "RuntimeError: Replicate status failed"]
       ELSE CASE PollOutcome(s) = "return" ->
                   img' = [img EXCEPT !.pc = "done", !.polls = @ + 1, !.seen = s,
                                      !.result = "returned", !.url = s.output.items[1]]
              [] PollOutcome(s) = "raise" ->
                   img' = [img EXCEPT !.pc = "done", !.polls = @ + 1, !.seen = s,
                                      !.result = "raised",
                                      !.error = IF s.status # "succeeded"
                                                THEN "RuntimeError: Replicate failed"
                                                ELSE "RuntimeError: Replicate succeeded but no output URL"]
              [] OTHER ->
                   IF PollTimedOut(img)
                   THEN img' = [img EXCEPT !.pc = "done", !.polls = @ + 1, !.seen = s,
                                           !.result = "raised",
                                           !.error = "TimeoutError: Replicate polling timeout"]
                   ELSE img' = [img EXCEPT !.polls = @ + 1, !.seen = s]
    /\ UNCHANGED <<asyncVars, graphVars, tts>>

\* tts_to_bytes, lines 19-27: called once the image url is there; without a
\* voice id it raises before the loop.
tts_to_bytes(max_retries, voice_id, api_key) ==
    /\ img.result = "returned"
    /\ tts.pc = "off"
    /\ IF ~voice_id
       THEN tts' = [NoTTSCall EXCEPT !.pc = "done", !.api_key = api_key,
                                     !.max_retries = max_retries, !.result = "raised",
                                     !.error = "RuntimeError: ELEVENLABS_VOICE_ID is not set"]
       ELSE tts' = [NoTTSCall EXCEPT !.pc = "attempt", !.voice_id = TRUE,
                                     !.api_key = api_key, !.max_retries = max_retries]
    /\ UNCHANGED <<asyncVars, graphVars, img>>

\* Answers to the text-to-speech POST; 0 stands for a request that raised
\* (connection error, timeout).
TTSResponses == {200, 401, 429, 500, 0}

\* Every HTTP error status is retried.
ShouldRetry_any_http_error(status, attempt, max_retries) ==
    status >= 400 /\ attempt < max_retries

\* tts_to_bytes, lines 35-37: the only case in which the loop continues.
ShouldRetry(status, attempt, max_retries) ==
    status = 429 /\ attempt < max_retries

\* tts_to_bytes, lines 29-51: one turn of the loop.
tts_attempt(r) ==
    /\ tts.pc = "attempt"
    /\ IF ~tts.api_key
       THEN tts' = [tts EXCEPT !.pc = "done", !.result = "raised",
                               !.error = "RuntimeError: ELEVENLABS_API_KEY is not set"]
       ELSE IF r = 200
       THEN tts' = [tts EXCEPT !.pc = "done", !.log = Append(@, r), !.result = "returned"]
       ELSE IF ShouldRetry(r, tts.attempt, tts.max_retries)
       THEN tts' = [tts EXCEPT !.log = Append(@, r), !.slept = @ + 2 ^ tts.attempt,
                               !.attempt = @ + 1]
       ELSE tts' = [tts EXCEPT !.pc = "done", !.log = Append(@, r), !.result = "raised",
                               !.error = IF r = 0 THEN "network error"
                                         ELSE IF r = 429 THEN "HTTPStatusError 429"
                                         ELSE "HTTPStatusError"]
    /\ UNCHANGED <<asyncVars, graphVars, img>>

NextAdapters ==
    \/ \E m \in Selectors, a \in CreateStatuses,
          v \in {"version_id", "no_version", "error"}, b \in CreateStatuses :
          create_prediction(m, a, v, b)
    \/ poll_ceiling_passes
    \/ \E s \in PollResponses : poll_prediction(s)
    \/ \E m \in 0..MaxRetries, v \in BOOLEAN, k \in BOOLEAN : tts_to_bytes(m, v, k)
    \/ \E r \in TTSResponses : tts_attempt(r)

SpecAdapters == InitAdapters /\ [][NextAdapters]_vars

----------------------------------------------------------------------------
\* The status query of app.py: job_status / get_job_record.  The KV record
\* first, then the legacy registry; 404 when neither has the job.
get_job_record_found == get_job # NoJob \/ 1 \in JOBS

Terminal == {"failed", "succeeded"}

\* C1: once the stored status is failed or succeeded, no step of the
\* pipeline changes it to another value.
C1_TerminalIsFinal ==
    [][kvJob.status \in Terminal => kvJob'.status = kvJob.status]_vars

\* C2: when start_story_generation and all scene tasks of a stored job have
\* finished, the stored status is not queued or running.
C2_FinishedJobIsTerminal ==
    (pc[0] = "done" /\ AllScenesDone) => kvJob.status \notin {"queued", "running"}

\* C3: once start_job has answered with a job id, the status query finds
\* the job, with or without the KV backing.
C3_StatusNeverNotFound ==
    response = "queued" => get_job_record_found

\* C4: no write to the store makes scenes_completed smaller than it was.
C4_ScenesCompletedMonotonic ==
    [][kvJob'.scenes_completed >= kvJob.scenes_completed]_vars

SceneRaised == raised \cap SceneTasks # {}

\* C5: if a scene raised during asset generation, the stored job never is
\* succeeded, the render step never starts, and the finished job is failed.
C5_SceneFailureAbortsJob ==
    (kvEnabled /\ SceneRaised) =>
        /\ kvJob.status # "succeeded"
        /\ kvJob.current_step \notin {"rendering_video", "completed"}
        /\ pc[0] # "rf_done"
        /\ (pc[0] = "done" => kvJob.status = "failed")

\* C6: the error recorded for a job that failed in one scene contains the
\* id of that scene.
C6_ErrorNamesFailingScene ==
    \A t \in SceneTasks :
        (raised = {t} /\ pc[t] = "done" /\ kvJob.status = "failed")
            => kvJob.error.scene = scenes[t]

----------------------------------------------------------------------------
\* Result retrieval, submission and the job store

\* job_download, lines 257-261: the legacy registry alone is consulted; the
\* record it holds is the JobRecord of _background_render.
job_download ==
    IF 1 \notin JOBS THEN "404"
    ELSE IF job.status # "succeeded" \/ job.final_path = "none"
            \/ <<job.final_path, 0>> \notin fs.files
         THEN "409"
         ELSE "200"

\* C12: for a job the status query knows, result retrieval never answers
\* NotFound, and answers Conflict while the status is not succeeded.
C12_DownloadConflictUnlessSucceeded ==
    get_job_record_found =>
        /\ job_download # "404"
        /\ (get_job.status # "succeeded" => job_download = "409")

\* C13: once the status query reports succeeded for a job created by
\* start_job, result retrieval returns the artifact.
C13_SucceededJobIsDownloadable ==
    (response = "queued" /\ get_job.status = "succeeded") => job_download = "200"

SubmissionHasEmptyField ==
    submission # NoSubmission /\ (submission.situation = "" \/ submission.setting = "")

NothingStarted ==
    /\ kvJob = NoJob
    /\ pc[0] = "rejected"
    /\ \A t \in Tasks \ {0} : pc[t] = "off"
    /\ adapterCalls = {}

\* C14 as stated: a submission with an empty situation or setting is
\* answered with the client error, and creates no record and no task.
C14_EmptyFieldIsClientError ==
    SubmissionHasEmptyField => (response = "400" /\ NothingStarted)

\* C14 as amended: a submission with an empty situation or setting creates
\* no record and no task; it is answered with the client error when every
\* credential is configured, and with the configuration error otherwise.
C14_EmptyFieldIsRejected ==
    SubmissionHasEmptyField =>
        /\ NothingStarted
        /\ response = IF submission.keys = RequiredKeys THEN "400" ELSE "500"

C14_Witness ==
    /\ submission.keys = RequiredKeys
    /\ submission.situation = "first day"
    /\ submission.setting = ""
    /\ response = "400"
    /\ pc[0] = "rejected"

CredentialMissing ==
    submission # NoSubmission /\ \E k \in RequiredKeys : k \notin submission.keys

\* C15: with a required credential missing the submission is answered with
\* the configuration error; no record is created, no task is scheduled and
\* no external service is called.
C15_MissingCredentialFailsFast ==
    CredentialMissing => (response = "500" /\ NothingStarted)

C15_Witness ==
    /\ submission.keys = RequiredKeys \ {"ELEVENLABS_VOICE_ID"}
    /\ submission.situation = "first day"
    /\ submission.setting = "classroom"
    /\ response = "500"
    /\ pc[0] = "rejected"

\* C16: when the pipeline task has been scheduled, and when start_job has
\* answered with a job id, the job record is stored.
C16_ReturnedJobIsPersisted ==
    (response = "queued" \/ pc[0] = "sg_start") => kvJob.status # "absent"

\* C17: in synchronous mode, with the job store configured, the answer of
\* an accepted submission carries a terminal status.
C17_SyncAnswerIsTerminal ==
    (execution_mode = "sync" /\ kvEnabled /\ response \notin {"none", "400", "500"})
        => response \in Terminal

\* C18: under both backings a get right after the create returns the
\* created record.
C18_GetAfterCreateUnderBothBackings ==
    pc[0] = "sg_start" => get_job = create_job_record

\* C19: the write of update_job_status leaves every field the call does not
\* name (and the error when none is given) as the call read it, and a call
\* that finds nothing stored writes nothing.
C19_UpdateIsMerge ==
    [][\A t \in Tasks :
         /\ (pc[t] = "upd_set" /\ pc'[t] # "upd_set") =>
               /\ \A f \in FieldNames \ call[t].names : kvJob'[f] = local[t][f]
               /\ (call[t].error = NoError => kvJob'.error = local[t].error)
               /\ kvJob'.status = call[t].status
         /\ (pc[t] = "upd_get" /\ pc'[t] # "upd_get" /\ get_job = NoJob) =>
               kvJob' = kvJob]_vars

C19_Witness ==
    /\ kvJob.status = "failed"
    /\ kvJob.error = ElevenLabsError
    /\ kvJob.spec = <<2, 1>>
    /\ kvJob.total_scenes = 2
    /\ kvJob.scenes_completed = 1
    /\ kvJob.current_step = "generating_assets"

----------------------------------------------------------------------------
\* Claims about the graph pipeline

\* The positions at which node_render has returned or raised.
PastRender == {"graph_done", "except", "raised", "finished"}

\* C7: after a 500 answer of the render worker the local strategy runs
\* exactly once, and when it succeeds the render ends with the final path
\* of the locally encoded video and the job succeeds.
C7_FallbackOn500 ==
    resp.status = 500 =>
        /\ obs.local_runs <= 1
        /\ gpc \in PastRender => obs.local_runs = 1
        /\ (gpc \in PastRender /\ obs.local_ok) =>
              /\ gpc \in {"graph_done", "finished"}
              /\ state.final_path = "final.mp4"
              /\ fs.final.origin = "local"
        /\ (gpc = "finished" /\ obs.local_ok) => job.status = "succeeded"

C7_Witness ==
    /\ resp.status = 500
    /\ obs.remote_requests = 1
    /\ obs.local_runs = 1
    /\ obs.local_ok
    /\ job.status = "succeeded"

SmallVideoAnswer ==
    /\ resp.status = 200
    /\ resp.ctype = "video/mp4"
    /\ resp.size < MinVideoBytes

\* C8: a 200 video answer with a body under the minimum size is never the
\* job's final artifact; the local strategy runs once, as after a failure.
C8_TinyAnswerFallsBack ==
    SmallVideoAnswer =>
        /\ ~(state.final_path # "none" /\ fs.final.origin = "remote")
        /\ obs.local_runs <= 1
        /\ gpc \in PastRender => obs.local_runs = 1
        /\ job.status = "succeeded" => fs.final.origin = "local"

C8_Witness ==
    /\ SmallVideoAnswer
    /\ obs.local_runs = 1
    /\ job.status = "succeeded"
    /\ fs.final.origin = "local"

IsAscending(ids) == \A i, j \in DOMAIN ids : i < j => ids[i] <= ids[j]

\* C9: the clips handed to concatenation are in ascending scene id, in the
\* local strategy and in the render worker, whatever the order of the spec.
C9_ClipsAscendingById ==
    /\ IsAscending(obs.concat_input)
    /\ IsAscending(state.scene_video_paths)
    /\ IsAscending(obs.w_scene_outs)

C9_Witness ==
    /\ Ids(state.spec) = <<3, 1, 2>>
    /\ obs.w_scene_outs = <<1, 2, 3>>
    /\ obs.concat_input = <<1, 2, 3>>

\* C10: when run_pipeline has raised, and so whenever the job is failed,
\* the job's tmp_dir is deleted.
C10_FailedJobHasNoTmpDir ==
    (gpc = "raised" \/ job.status = "failed") => fs.tmp_dir = "deleted"

C10_Witness ==
    /\ job.status = "failed"
    /\ job.error = AudioExc
    /\ fs.tmp_dir = "deleted"

\* C20: when run_pipeline has returned, final_path is set and names a file
\* of the job's tmp_dir, and the tmp_dir exists.
C20_ReturnedStateHasFinalPath ==
    (gpc = "graph_done" \/ job.status = "succeeded") =>
        /\ state.final_path # "none"
        /\ state.tmp_dir = "tmp"
        /\ fs.tmp_dir = "exists"
        /\ <<state.final_path, 0>> \in fs.files

C20_Witness ==
    /\ gpc = "graph_done"
    /\ Len(state.spec) = MaxGraphScenes
    /\ state.final_path = "final.mp4"
    /\ fs.final.origin = "local"
    /\ fs.tmp_dir = "exists"

\* C11: once a response streams the artifact, the tmp_dir is not removed
\* before every piece of the file has been read for that response.
C11_NoCleanupBeforeArtifactRead ==
    (dl.http = 200 /\ fs.tmp_dir = "deleted") => dl.read = dl.total

----------------------------------------------------------------------------
\* Claims about scene completion, the render strategies and the assets

\* C21: when every scene task of a stored job has completed without an
\* exception, the stored scenes_completed equals the number of scenes.
C21_NoLostIncrement ==
    (kvEnabled /\ pc[0] = "pas_gather" /\ AllScenesDone /\ raised = {})
        => kvJob.scenes_completed = Len(scenes)

RemoteAccepted == state.final_path # "none" /\ fs.final.origin = "remote"

\* C22: the worker's answer becomes the job's final artifact only when its
\* status is 2xx and its content type is video/mp4.
C22_OnlyVideo2xxAccepted ==
    RemoteAccepted =>
        /\ resp.status >= 200
        /\ resp.status < 300
        /\ resp.ctype = "video/mp4"

WorkerConfigured == cfg.variant = "api" /\ cfg.worker_url

\* The single remote attempt is over and did not produce the final file:
\* nothing could be sent, the request raised, or the answer was refused.
RemoteAttemptFailed ==
    /\ gpc \notin {"render", "remote_wait", "remote_resp"}
    /\ ~RemoteAccepted
    /\ \/ obs.remote_requests = 0
       \/ /\ resp # NoResp
          /\ \/ resp.status = 0
             \/ resp.status >= 400
             \/ resp.ctype # "video/mp4"
             \/ resp.size <= MinVideoBytes

\* C23: within one render the worker receives at most one request, the
\* local strategy runs only without a worker or after the remote attempt
\* failed, and never after the worker's answer was accepted.
C23_StrictOrderNoRetry ==
    /\ obs.remote_requests <= 1
    /\ obs.w_runs <= 1
    /\ ~WorkerConfigured => obs.remote_requests = 0
    /\ (obs.local_runs >= 1 /\ WorkerConfigured) => RemoteAttemptFailed
    /\ RemoteAccepted => (obs.local_runs = 0 /\ obs.encoder_calls = <<>>)

C23_Witness ==
    /\ WorkerConfigured
    /\ obs.remote_requests = 1
    /\ RemoteAccepted
    /\ obs.local_runs = 0
    /\ job.status = "succeeded"

\* C24: a job that failed in the local encoder has the encoder's
\* diagnostic output in its error text.
C24_EncoderDiagnosticKept ==
    (job.status = "failed" /\ obs.local_runs >= 1 /\ ~obs.local_ok)
        => job.error.stderr

\* C25: final_path is only ever set to a file larger than the minimum size.
C25_FinalFileSizeChecked ==
    state.final_path # "none" => fs.final.size > MinVideoBytes

\* C26: a scene is counted as completed only when its image and its audio
\* are both stored for the job.
C26_CompletedSceneHasBothAssets ==
    kvJob.scenes_completed >= 1 =>
        \E t \in SceneTasks :
            /\ <<scenes[t], "image">> \in kvAssets
            /\ <<scenes[t], "audio">> \in kvAssets

\* C27: when the asset stage has completed, both adapters have been invoked
\* for every scene of the spec.
C27_AssetsCoverEveryScene ==
    gpc = "render" =>
        \A k \in 1..Len(state.spec) :
            <<k, "image">> \in obs.adapters /\ <<k, "audio">> \in obs.adapters

\* C28: a text-generation response with an empty scene list never leads to
\* a succeeded job.
C28_EmptySceneListFails ==
    (kvEnabled /\ <<0, "llm">> \in adapterCalls /\ scenes = <<>>)
        => kvJob.status # "succeeded"

----------------------------------------------------------------------------
\* Claims about the adapters

\* C29: tts_to_bytes sends at most max_retries + 1 requests, every request
\* but the last was answered 429, and the call raises when its last answer
\* is an error other than a 429 that may be retried; a 429 on the last
\* allowed attempt is raised.
C29_RetryOnlyOn429 ==
    /\ Len(tts.log) <= tts.max_retries + 1
    /\ \A i \in 1..(Len(tts.log) - 1) : tts.log[i] = 429
    /\ (tts.pc = "attempt" /\ tts.log # <<>>) => tts.log[Len(tts.log)] = 429
    /\ (tts.log # <<>> /\ tts.log[Len(tts.log)] \in {0, 401, 500})
           => (tts.pc = "done" /\ tts.result = "raised")
    /\ (Len(tts.log) = tts.max_retries + 1 /\ tts.log[Len(tts.log)] = 429)
           => (tts.pc = "done" /\ tts.result = "raised")

C29_Witness ==
    /\ tts.max_retries = 2
    /\ tts.log = <<429, 429, 429>>
    /\ tts.slept = 3
    /\ tts.result = "raised"

\* C30: create_and_wait_image returns a url only when the last poll saw
\* status succeeded with a non-empty output list, and raises whenever a
\* poll saw failed or canceled, or succeeded without such an output.
C30_UrlOnlyAfterSucceededWithOutput ==
    /\ img.result = "returned" =>
          /\ img.seen.status = "succeeded"
          /\ img.seen.output.kind = "list"
          /\ img.seen.output.items # <<>>
          /\ img.url = img.seen.output.items[1]
    /\ img.seen.status \in {"failed", "canceled"} =>
          (img.result = "raised" /\ img.url = "none")
    /\ (img.seen.status = "succeeded"
          /\ ~(img.seen.output.kind = "list" /\ img.seen.output.items # <<>>)) =>
          (img.result = "raised" /\ img.url = "none")

C30_Witness ==
    /\ img.polls = 2
    /\ img.seen.status = "succeeded"
    /\ img.seen.output.items = <<"url_a", "url_b">>
    /\ img.result = "returned"
    /\ img.url = "url_a"

\* C31: once the time since the polling loop started exceeds the overall
\* ceiling, at most one further status poll is made and the call has ended
\* after it; when that poll shows a prediction that is still not terminal,
\* the call ends with the Timeout error.
C31_TimeoutEndsPolling ==
    img.expired_at >= 0 =>
        /\ img.polls <= img.expired_at + 1
        /\ (img.polls = img.expired_at + 1 => img.pc = "done")
        /\ (/\ img.polls = img.expired_at + 1
            /\ img.seen.http = 200
            /\ img.seen.status \notin {"succeeded", "failed", "canceled"})
               => img.error = "TimeoutError: Replicate polling timeout"

C31_Witness ==
    /\ img.pc = "done"
    /\ img.expired_at >= 1
    /\ img.polls = img.expired_at + 1
    /\ img.seen.status = "processing"
    /\ img.error = "TimeoutError: Replicate polling timeout"

\* C39: a create request answered with a status of 400 or above, the
\* repeated create of the 404 fallback included, ends the call with the
\* 'Replicate create failed' error and no status poll is made.
C39_FailedCreateNeverPolled ==
    img.r >= 400 =>
        /\ img.pc = "done"
        /\ img.polls = 0
        /\ img.error = "RuntimeError: Replicate create failed"

\* C32: a stored job record carries an error message only when its status
\* is failed.
C32_ErrorOnlyWhenFailed ==
    (kvJob # NoJob /\ kvJob.error # NoError) => kvJob.status = "failed"

\* C35: in every state of the job store the counter of completed scenes is
\* between 0 and total_scenes, and it is above 0 only once total_scenes
\* holds the number of scenes of the stored spec.
C35_CounterWithinTotal ==
    kvJob # NoJob =>
        /\ 0 <= kvJob.scenes_completed
        /\ kvJob.scenes_completed <= kvJob.total_scenes
        /\ (kvJob.scenes_completed > 0 => kvJob.total_scenes = Len(scenes))

C35_Witness ==
    /\ kvJob.total_scenes >= 2
    /\ kvJob.scenes_completed = kvJob.total_scenes
    /\ \A t \in SceneTasks : pc[t] = "done"

\* C33: every scene duration handed to an encoder invocation, by the local
\* strategy or by the render worker, is at least 1 second.
C33_EncoderDurationsPositive ==
    /\ \A k \in DOMAIN obs.encoder_calls : obs.encoder_calls[k].duration_sec >= 1
    /\ \A k \in DOMAIN obs.w_encoder_calls : obs.w_encoder_calls[k].duration_sec >= 1

\* C34: a spec in which two scenes share an id never reaches the asset
\* stage: whenever node_assets runs or an asset adapter was called, the
\* scene ids of the spec are pairwise distinct.
C34_AssetStageHasUniqueIds ==
    (gpc = "assets" \/ obs.adapters # {}) =>
        \A i, j \in DOMAIN state.spec :
            state.spec[i].id = state.spec[j].id => i = j

\* C37: after a /render request that made a temp directory has been
\* answered, with the video or with an error, that directory is deleted.
C37_WorkerTempDirDeleted ==
    (gpc = "remote_resp" /\ obs.w_tmp # "none") => obs.w_tmp = "deleted"

\* The scene ids of the metadata for which the image or the audio upload
\* is not in the request.
MissingUploads(r) ==
    {r.meta[k].id : k \in {j \in DOMAIN r.meta :
                              \/ <<"png", r.meta[j].id>> \notin r.files
                              \/ <<"mp3", r.meta[j].id>> \notin r.files}}

\* C38: a /render request whose metadata lists a scene without its image
\* or audio upload is answered 400, and the encoder is invoked for no
\* scene with a higher id than such a scene.
C38_MissingUploadIsClientError ==
    (gpc = "remote_resp" /\ req # NoReq /\ MissingUploads(req) # {}) =>
        /\ resp.status = 400
        /\ \A k \in DOMAIN obs.w_encoder_calls, sid \in MissingUploads(req) :
               obs.w_encoder_calls[k].id < sid
====
